---- MODULE Spec2Model ----
(***************************************************************************)
(* The allow-list authorization engine of sign-in-template: the           *)
(* AllowListService (store + in-memory cache), the AuditLogger, the API   *)
(* guards (createAuthGuard, requireRole, the route-level requireAdmin and *)
(* the profile route) and the admin mutation routes.                      *)
(*                                                                         *)
(* Every `await query(...)` of the source is an interleaving point: the   *)
(* database executes the statement in one step (DbStep) and the code      *)
(* after the await runs in a later step (Resume), so other requests may   *)
(* run between the two.  Code between two awaits runs atomically, as on   *)
(* the Node.js event loop.                                                 *)
(***************************************************************************)
EXTENDS Integers, Sequences, FiniteSets, TLC

\* ------------------------------------------------------------------ bounds
NReq == 2            \* request slots of the service-level specification
MaxTime == 2         \* the clock runs 0..MaxTime
MaxInFlight == 1     \* requests of the HTTP surface served at once
MaxLen == 3          \* longest email string the normalizer is compared on
MaxRows == 3         \* most entries of an audit log read page by page
MaxLog == 1          \* audit entries after which no logging request is admitted

\* --------------------------------------------------------------- constants
\* cacheTimeout = 5 * 60 * 1000 ms; the model's clock counts units of 2.5
\* minutes, so the TTL is 2 units.
cacheTimeout == 2

UNDEF == "undefined"
DbError == "connect ECONNREFUSED"
NotFoundError == "Email not found in allow list"
UserNotFoundError == "User not found"

\* Emails are sequences of one-character strings.
RawEmails == { <<"A", " ">>, <<"b">> }
Roles == {"admin", "viewer", "qa"}
System == <<"system">>

\* ------------------------------------------------------ identity normalizer
Lower(c) == CASE c = "A" -> "a" [] c = "B" -> "b" [] OTHER -> c

toLowerCase(s) == [i \in 1..Len(s) |-> Lower(s[i])]

IsSpace(c) == c = " "

RECURSIVE trimStart(_)
trimStart(s) == IF s # <<>> /\ IsSpace(Head(s)) THEN trimStart(Tail(s)) ELSE s

RECURSIVE trimEnd(_)
trimEnd(s) ==
  IF s # <<>> /\ IsSpace(s[Len(s)]) THEN trimEnd(SubSeq(s, 1, Len(s) - 1)) ELSE s

\* A trim that strips the front only.
trimStartOnly(s) == trimStart(s)

trim(s) == trimEnd(trimStart(s))

normalizeEmail(email) == trim(toLowerCase(email))

Keys == { normalizeEmail(e) : e \in RawEmails }

\* ------------------------------------------------- the auth_allowed_emails table
SeedRow ==
  [email |-> <<"a">>, display_name |-> "System Administrator", role |-> "admin",
   invited_by |-> System, created_at |-> 0, updated_at |-> 0, active |-> TRUE]

\* SELECT ... FROM auth_allowed_emails WHERE email = $1  (result.rows)
SelectByEmail(tbl, k) ==
  LET m == { row \in tbl : row.email = k }
  IN IF m = {} THEN <<>> ELSE << CHOOSE row \in m : TRUE >>

\* An upsert that replaces the whole row, re-activating it.
UpsertReplaces(tbl, k, dn, role, by, t) ==
  { row \in tbl : row.email # k } \cup
    { [email |-> k, display_name |-> dn, role |-> role, invited_by |-> by,
       created_at |-> t, updated_at |-> t, active |-> TRUE] }

\* INSERT ... ON CONFLICT (email) DO UPDATE SET display_name, role, invited_by, updated_at
UpsertUser(tbl, k, dn, role, by, t) ==
  IF \E row \in tbl : row.email = k
  THEN { IF row.email = k
         THEN [row EXCEPT !.display_name = dn, !.role = role,
                          !.invited_by = by, !.updated_at = t]
         ELSE row : row \in tbl }
  ELSE tbl \cup { [email |-> k, display_name |-> dn, role |-> role,
                   invited_by |-> by, created_at |-> t, updated_at |-> t,
                   active |-> TRUE] }

\* A DELETE that matches nothing.
DeleteUserNoop(tbl, k) == tbl

\* DELETE FROM auth_allowed_emails WHERE email = $1
DeleteUser(tbl, k) == { row \in tbl : row.email # k }

\* A statement that deactivates instead of flipping.
ToggleActiveOff(tbl, k, t) ==
  { IF row.email = k
    THEN [row EXCEPT !.active = FALSE, !.updated_at = t]
    ELSE row : row \in tbl }

\* UPDATE ... SET active = NOT active, updated_at = now() WHERE email = $1
ToggleActive(tbl, k, t) ==
  { IF row.email = k
    THEN [row EXCEPT !.active = ~row.active, !.updated_at = t]
    ELSE row : row \in tbl }

\* A RETURNING that reports the value before the update.
ToggleReturningOld(tbl, k, t) ==
  LET rows == SelectByEmail(tbl, k)
  IN IF rows = <<>> THEN <<>> ELSE << [active |-> rows[1].active] >>

\* ... RETURNING active
ToggleReturning(tbl, k, t) ==
  LET rows == SelectByEmail(ToggleActive(tbl, k, t), k)
  IN IF rows = <<>> THEN <<>> ELSE << [active |-> rows[1].active] >>

\* The role column's CHECK constraint.
RoleCheck(role) == role \in Roles

\* ------------------------------------------------------- the cache (a Map)
CacheHas(c, k) == k \in DOMAIN c

CacheSet(c, k, user, t) ==
  [x \in DOMAIN c \cup {k} |->
     IF x = k THEN [user |-> user, timestamp |-> t] ELSE c[x]]

\* A mutation that leaves the cache entry in place.
CacheDeleteSkipped(c, k) == c

CacheDelete(c, k) == [x \in DOMAIN c \ {k} |-> c[x]]

\* A freshness test that still serves an entry of age exactly cacheTimeout.
CacheFreshInclusive(c, k, t) == CacheHas(c, k) /\ t - c[k].timestamp <= cacheTimeout

\* cached && Date.now() - cached.timestamp < this.cacheTimeout
CacheFresh(c, k, t) == CacheHas(c, k) /\ t - c[k].timestamp < cacheTimeout

\* ------------------------------------------------ results of the service
NoRes == [ok |-> FALSE, user |-> <<>>, error |-> UNDEF, newStatus |-> <<>>]

HitResult(entry) ==
  [ok |-> entry.user.active, user |-> <<entry.user>>, error |-> UNDEF, newStatus |-> <<>>]

NotFoundResult ==
  [ok |-> FALSE, user |-> <<>>, error |-> NotFoundError, newStatus |-> <<>>]

\* A lookup that allows every row it finds.
FoundAlwaysAllowed(user) ==
  [ok |-> TRUE, user |-> <<user>>, error |-> UNDEF, newStatus |-> <<>>]

FoundResult(user) ==
  [ok |-> user.active, user |-> <<user>>, error |-> UNDEF, newStatus |-> <<>>]

\* A catch block that answers allowed / success = true.
ErrorResultFailOpen(msg) ==
  [ok |-> TRUE, user |-> <<>>, error |-> msg, newStatus |-> <<>>]

ErrorResult(msg) ==
  [ok |-> FALSE, user |-> <<>>, error |-> msg, newStatus |-> <<>>]

SuccessResult == [ok |-> TRUE, user |-> <<>>, error |-> UNDEF, newStatus |-> <<>>]

ToggleResult(active) ==
  [ok |-> TRUE, user |-> <<>>, error |-> UNDEF, newStatus |-> <<active>>]

\* ------------------------------------------------------ audit log entries
\* The arguments of one logEvent call; ok tells whether the INSERT went through.
NoEntry ==
  [event |-> "none", email |-> <<>>, reason |-> UNDEF, error |-> UNDEF,
   active |-> <<>>, role |-> UNDEF, required_role |-> UNDEF,
   target |-> <<>>, new_status |-> <<>>, ok |-> FALSE]

\* createAuthGuard lines 35-42
NoEmailDeny ==
  [NoEntry EXCEPT !.event = "api_deny", !.error = "No email in session claims"]

\* createAuthGuard lines 54-61: active is allowListResult.user?.active
AllowListDeny(email, res) ==
  [NoEntry EXCEPT !.event = "api_deny", !.email = email,
                  !.reason = "not_in_allowlist",
                  !.active = IF res.user = <<>> THEN <<>> ELSE <<res.user[1].active>>]

\* createAuthGuard lines 70-77
ApiAllow(email, res) ==
  [NoEntry EXCEPT !.event = "api_allow", !.email = email,
                  !.role = IF res.user = <<>> THEN UNDEF ELSE res.user[1].role]

\* createAuthGuard lines 95-102
ErrorDeny(msg) == [NoEntry EXCEPT !.event = "api_deny", !.error = msg]

\* requireRole lines 116-123
RoleDeny(email, required, role) ==
  [NoEntry EXCEPT !.event = "api_deny", !.email = email,
                  !.reason = "insufficient_permissions",
                  !.required_role = required, !.role = role]

\* users route lines 117-124
AdminAddEvent(admin, target, role) ==
  [NoEntry EXCEPT !.event = "admin_add_user", !.email = admin,
                  !.target = target, !.role = role]

\* toggle route lines 82-92
AdminToggleEvent(admin, target, newStatus) ==
  [NoEntry EXCEPT !.event = "admin_toggle_user", !.email = admin,
                  !.target = target, !.new_status = newStatus]

\* The ip column is INET: the INSERT fails for the 'unknown' that getClientIP
\* returns when the request carries neither x-forwarded-for nor x-real-ip.
InetValid(ip) == ip # "unknown"

\* The requests whose audit INSERT can succeed: sent to an endpoint that
\* logs, with an ip the INET column accepts.
CanLog(kind, ip) ==
  /\ InetValid(ip)
  /\ kind \in {"createAuthGuard", "requireRole", "usersPOST", "togglePATCH"}

\* logEvent lines 115-135: every failure of the INSERT is caught and returned.
LogEventResult(inserted) ==
  IF inserted THEN [success |-> TRUE, error |-> UNDEF]
  ELSE [success |-> FALSE, error |-> DbError]

\* A logEvent without its catch: a failed INSERT propagates.
LogEventRethrows(inserted) == ~inserted

\* Whether logEvent (and so logAuthEvent / logAdminEvent) throws to its caller.
LogEventThrows(inserted) == FALSE

\* -------------------------------------------------------------- the state
VARIABLES
  store,      \* the auth_allowed_emails table: a set of rows
  cache,      \* AllowListService.cache: canonical email -> {user, timestamp}
  now,        \* Date.now() and the database's now()
  dbUp,       \* whether the database answers
  req,        \* the requests in flight, one record per slot
  everHad,    \* history: the canonical emails that ever had a row
  lastWrite,  \* history: when each email's row last changed
  flips,      \* history: parity of the toggles committed on each email's row
              \* since the row was created
  last,       \* history: the mutation that returned last, nothing started since
  auditLog,   \* the auth_audit_log table: a sequence of [id, ts, row]
  pager,      \* an admin client reading the audit log page by page
  edge        \* the request the edge middleware handled last, and its outcome

vars ==
  <<store, cache, now, dbUp, req, everHad, lastWrite, flips, last, auditLog,
    pager, edge>>

Req == 1..NReq

\* The auth_audit_log table, in insertion order. id is BIGSERIAL: each
\* INSERT takes the next value of the sequence, and ts DEFAULT now().
NextId(tbl) == Len(tbl) + 1

\* An insert into a log that keeps its latest entry only.
InsertAuditRotating(tbl, entry) ==
  << [id |-> NextId(tbl), ts |-> now, row |-> [entry EXCEPT !.ok = TRUE]] >>

InsertAudit(tbl, entry) ==
  Append(tbl, [id |-> NextId(tbl), ts |-> now, row |-> [entry EXCEPT !.ok = TRUE]])

\* No pager is open; the edge middleware has handled no request yet.
NoPager ==
  [pc |-> "idle", email |-> <<>>, event |-> "", limit |-> 0,
   page1 |-> <<>>, page2 |-> <<>>]
NoEdge ==
  [pc |-> "idle", path |-> <<>>, session |-> "none", email |-> <<>>,
   production |-> FALSE, https |-> TRUE, clean |-> TRUE, outcome |-> "none"]

NoArgs == [displayName |-> "", role |-> "", invitedBy |-> <<>>, bodyRole |-> UNDEF]
NoQres == [ok |-> FALSE, rows |-> <<>>]
NoLast ==
  [op |-> "none", key |-> <<>>, newStatus |-> <<>>, solo |-> FALSE,
   created |-> FALSE]
LongAgo == 0 - cacheTimeout

\* kind: the entry point; call: the service call in progress; email: the
\* argument of a direct service call, or the identity's email claim; target:
\* the email an admin route acts on; qres: what the database answered (a
\* finished direct call keeps only whether it answered); res: the result of
\* the direct call, or the guard's AllowListResult; src: whether that result
\* came from the cache or from a query; mres: the result of the route's own
\* service call; audits: the logEvent calls made; session, profile: what the
\* identity provider answered to auth() and to currentUser(); flip
\* (history): the parity of the row's toggles once this call's own toggle
\* was committed.
NoFlip == 0 - 1

\* The CSRF token a request carries in its x-csrf-token header and in its
\* csrf-token cookie ("" when absent; "short" is not 64 characters long).
HeaderTokens == {"", "t64", "u64", "short"}
CookieTokens == {"", "t64", "short"}
WellFormed(token) == token \in {"t64", "u64"}

validateCSRFToken(token, sessionToken) ==
  token = sessionToken /\ WellFormed(token)

validateToken(header, cookie) ==
  /\ header # ""
  /\ cookie # ""
  /\ validateCSRFToken(header, cookie)

\* The middleware stack an endpoint is exported with: the bare route, or
\* the route wrapped in withCSRFProtection.
Stacks == {"plain", "protected"}
NoCsrf == [stack |-> "plain", header |-> "", cookie |-> ""]

\* withCSRFProtection answers 403 before the wrapped handler runs.
CsrfRejects(csrf) ==
  csrf.stack = "protected" /\ ~validateToken(csrf.header, csrf.cookie)

Idle ==
  [kind |-> "idle", pc |-> "idle", call |-> "none", email |-> <<>>,
   target |-> <<>>, args |-> NoArgs, qres |-> NoQres, res |-> NoRes,
   mres |-> NoRes, src |-> "none", started |-> 0, after |-> NoLast,
   session |-> "none", profile |-> "unused", ip |-> "unknown",
   hthrows |-> FALSE,
   status |-> 0, handlerRan |-> FALSE, audits |-> <<>>,
   pend |-> NoEntry, next |-> 0, flip |-> NoFlip, solo |-> FALSE,
   created |-> FALSE,
   csrf |-> NoCsrf]

InFlight(r) == req[r].pc \notin {"idle", "done"}

Mutations == {"addUser", "removeUser", "toggleUserStatus"}
ServiceKinds == Mutations \cup {"isEmailAllowed"}
AuditingGuards == {"createAuthGuard", "requireRole"}
AdminRoutes == {"usersGET", "usersPOST", "togglePATCH", "auditGET"}
RouteGuards == AdminRoutes \cup {"profileGET"}
GuardKinds == AuditingGuards \cup RouteGuards

\* The email argument of the service call in progress.
CallArg(rec) ==
  IF rec.kind \in GuardKinds /\ rec.call # "isEmailAllowed"
  THEN rec.target ELSE rec.email

Init ==
  /\ store = {SeedRow}
  /\ cache = << >>
  /\ now = 0
  /\ dbUp = TRUE
  /\ req = [r \in Req |-> Idle]
  /\ everHad = {SeedRow.email}
  /\ lastWrite = [k \in Keys |-> LongAgo]
  /\ flips = [k \in Keys |-> 0]
  /\ last = NoLast
  /\ auditLog = << >>
  /\ pager = NoPager
  /\ edge = NoEdge

\* A request takes the lowest free slot (the slots are interchangeable), and
\* every other request loses its "nothing in between" mark.  solo
\* (history): no other request has been in flight since this one started.
Begin(r, rec) ==
  /\ req[r].pc = "idle"
  /\ \A x \in Req : x < r => req[x].pc # "idle"
  /\ req' = [x \in Req |->
              IF x = r
              THEN [rec EXCEPT !.solo = InFlight(r) \/ ~\E y \in Req : InFlight(y)]
              ELSE IF req[x].pc = "idle" THEN req[x]
              ELSE [req[x] EXCEPT !.after = NoLast, !.solo = FALSE]]
  /\ last' = NoLast

\* The mark a starting call for key k carries: the mutation of k that has
\* just returned, when no request is in flight.
Mark(k) ==
  IF (\E x \in Req : InFlight(x)) \/ last.key # k THEN NoLast ELSE last

\* ------------------------------------------------------ isEmailAllowed
\* lines 404-415: normalize, look in the cache, answer from a fresh entry.
StartLookup(r, email) ==
  /\ LET k == normalizeEmail(email)
         base == [Idle EXCEPT !.kind = "isEmailAllowed", !.call = "isEmailAllowed",
                              !.email = email, !.started = now, !.after = Mark(k)]
     IN IF CacheFresh(cache, k, now)
        THEN Begin(r, [base EXCEPT !.pc = "done", !.res = HitResult(cache[k]),
                                   !.src = "cache"])
        ELSE Begin(r, [base EXCEPT !.pc = "query"])
  /\ UNCHANGED <<store, cache, now, dbUp, everHad, lastWrite, flips, auditLog, pager, edge>>

\* A lookup that remembers 'not found' as an inactive entry.
LookupAfterCachingMisses(c, k, qres, t) ==
  IF ~qres.ok THEN [cache |-> c, res |-> ErrorResult(DbError)]
  ELSE IF Len(qres.rows) = 0
       THEN [cache |-> CacheSet(c, k, [SeedRow EXCEPT !.email = k, !.active = FALSE], t),
             res |-> NotFoundResult]
  ELSE [cache |-> CacheSet(c, k, qres.rows[1], t), res |-> FoundResult(qres.rows[1])]

\* lines 423-438 and the catch of 439-445: the code after `await query`.
LookupAfter(c, k, qres, t) ==
  IF ~qres.ok THEN [cache |-> c, res |-> ErrorResult(DbError)]
  ELSE IF Len(qres.rows) = 0 THEN [cache |-> c, res |-> NotFoundResult]
  ELSE [cache |-> CacheSet(c, k, qres.rows[1], t), res |-> FoundResult(qres.rows[1])]

\* ------------------------------------------- addUser / removeUser / toggle
StartMutation(r, op, email, args) ==
  /\ Begin(r, [Idle EXCEPT !.kind = op, !.call = op, !.pc = "query",
                           !.email = email, !.args = args, !.started = now,
                           !.after = Mark(normalizeEmail(email))])
  /\ UNCHANGED <<store, cache, now, dbUp, everHad, lastWrite, flips, auditLog, pager, edge>>

\* Mutations that invalidate the cache entry whether or not the write went
\* through.
MutationAfterAlwaysInvalidates(c, op, k, qres) ==
  IF ~qres.ok THEN [cache |-> CacheDelete(c, k), res |-> ErrorResult(DbError)]
  ELSE IF op = "toggleUserStatus" /\ Len(qres.rows) = 0
       THEN [cache |-> CacheDelete(c, k), res |-> ErrorResult(UserNotFoundError)]
  ELSE [cache |-> CacheDelete(c, k),
        res |-> IF op = "toggleUserStatus"
                THEN ToggleResult(qres.rows[1].active) ELSE SuccessResult]

\* lines 457-460, 479-482, 501-510 and the catch blocks.
MutationAfter(c, op, k, qres) ==
  IF ~qres.ok THEN [cache |-> c, res |-> ErrorResult(DbError)]
  ELSE IF op = "toggleUserStatus" /\ Len(qres.rows) = 0
       THEN [cache |-> c, res |-> ErrorResult(UserNotFoundError)]
  ELSE [cache |-> CacheDelete(c, k),
        res |-> IF op = "toggleUserStatus"
                THEN ToggleResult(qres.rows[1].active) ELSE SuccessResult]

\* The mark a returning mutation leaves for the request that follows it.
MarkOf(r, op, k, res) ==
  IF op \in Mutations /\ res.ok /\ ~\E x \in Req \ {r} : InFlight(x)
  THEN [op |-> op, key |-> k, newStatus |-> res.newStatus, solo |-> req[r].solo,
        created |-> req[r].created]
  ELSE NoLast

\* (history) The INSERT of addUser finds no row of k and creates one.
Created(call, k) == call = "addUser" /\ SelectByEmail(store, k) = <<>>

\* --------------------------------------------------------- the database
\* The statement of the pending call, executed by the database in one step.
SqlFails(call, args) == ~dbUp \/ (call = "addUser" /\ ~RoleCheck(args.role))

SqlStore(call, k, args) ==
  CASE call = "addUser" ->
         UpsertUser(store, k, args.displayName, args.role, args.invitedBy, now)
    [] call = "removeUser" -> DeleteUser(store, k)
    [] call = "toggleUserStatus" -> ToggleActive(store, k, now)
    [] OTHER -> store

SqlRows(call, k) ==
  CASE call = "isEmailAllowed" -> SelectByEmail(store, k)
    [] call = "toggleUserStatus" -> ToggleReturning(store, k, now)
    [] OTHER -> <<>>

\* History: the statement is a toggle that finds its row; the parity of the
\* toggles a row has taken since it was created (a removed row has none).
Flipped(call, k) == call = "toggleUserStatus" /\ SelectByEmail(store, k) # <<>>

FlipsAfter(call, k) ==
  CASE Flipped(call, k) -> [flips EXCEPT ![k] = 1 - @]
    [] call = "removeUser" -> [flips EXCEPT ![k] = 0]
    [] OTHER -> flips

DbStep(r) ==
  /\ req[r].pc = "query"
  /\ LET call == req[r].call
         k == normalizeEmail(CallArg(req[r]))
     IN IF SqlFails(call, req[r].args)
        THEN /\ req' = [req EXCEPT ![r].pc = "resume", ![r].qres = NoQres]
             /\ UNCHANGED <<store, everHad, lastWrite, flips>>
        ELSE /\ req' = [req EXCEPT ![r].pc = "resume",
                                   ![r].qres = [ok |-> TRUE, rows |-> SqlRows(call, k)],
                                   ![r].flip = IF Flipped(call, k)
                                               THEN 1 - flips[k] ELSE @,
                                   ![r].created = Created(call, k)]
             /\ store' = SqlStore(call, k, req[r].args)
             /\ flips' = FlipsAfter(call, k)
             /\ everHad' = everHad \cup { row.email : row \in store' }
             /\ lastWrite' = IF store' # store
                             THEN [lastWrite EXCEPT ![k] = now] ELSE lastWrite
  /\ UNCHANGED <<cache, now, dbUp, last, auditLog, pager, edge>>

\* The code after the await of a service call made directly.
Resume(r) ==
  /\ req[r].pc = "resume"
  /\ req[r].kind \in ServiceKinds
  /\ LET k == normalizeEmail(req[r].email)
         out == IF req[r].call = "isEmailAllowed"
                THEN LookupAfter(cache, k, req[r].qres, now)
                ELSE MutationAfter(cache, req[r].call, k, req[r].qres)
     IN /\ cache' = out.cache
        /\ req' = [req EXCEPT ![r].pc = "done", ![r].res = out.res,
                              ![r].qres = [ok |-> req[r].qres.ok, rows |-> <<>>],
                              ![r].args = NoArgs, ![r].src = "store",
                              ![r].solo = FALSE, ![r].created = FALSE]
        /\ last' = MarkOf(r, req[r].call, k, out.res)
  /\ UNCHANGED <<store, now, dbUp, everHad, lastWrite, flips, auditLog, pager, edge>>

\* The caller takes the result; the slot is free again.
Return(r) ==
  /\ req[r].pc = "done"
  /\ req' = [req EXCEPT ![r] = Idle]
  /\ UNCHANGED <<store, cache, now, dbUp, everHad, lastWrite, flips, last, auditLog, pager, edge>>

\* ------------------------------------------------------ the environment
Tick ==
  /\ now < MaxTime
  /\ now' = now + 1
  /\ UNCHANGED <<store, cache, dbUp, req, everHad, lastWrite, flips, last, auditLog, pager, edge>>

DbDown ==
  /\ dbUp
  /\ dbUp' = FALSE
  /\ UNCHANGED <<store, cache, now, req, everHad, lastWrite, flips, last, auditLog, pager, edge>>

DbRecover ==
  /\ ~dbUp
  /\ dbUp' = TRUE
  /\ UNCHANGED <<store, cache, now, req, everHad, lastWrite, flips, last, auditLog, pager, edge>>

\* ------------------------------------------------------------ the guards
\* NextResponse.json(..., { status }): the request is over.
Respond(rec, status) ==
  [rec EXCEPT !.pc = "done", !.status = status, !.pend = NoEntry, !.next = 0,
              !.qres = NoQres, !.solo = FALSE, !.created = FALSE]

\* `await auditLogger.logAuthEvent(...)` (or logAdminEvent); afterwards the
\* response `next` is sent, or, when next = 0, the handler is called.
LogThen(rec, entry, next) ==
  [rec EXCEPT !.pc = "audit", !.pend = entry, !.next = next, !.qres = NoQres]

\* `await allowListService.<call>(...)` up to its `await query`.
StartCall(rec, call) == [rec EXCEPT !.pc = "query", !.call = call]

\* The handler wrapped by createAuthGuard: it answers 200 or throws, and a
\* throw lands in the catch of lines 92-108.
Downstream(rec) ==
  IF rec.hthrows
  THEN LogThen([rec EXCEPT !.handlerRan = TRUE], ErrorDeny("handler error"), 500)
  ELSE Respond([rec EXCEPT !.handlerRan = TRUE], 200)

\* createAuthGuard line 83: allowListResult.user?.role || 'viewer'
ContextRole(res) ==
  IF res.user = <<>> \/ res.user[1].role = "" THEN "viewer" ELSE res.user[1].role

\* requireAdmin line 137
RequiredRole == "admin"

\* A role check that lets every known role through.
RoleMismatchLax(role, required) == role \notin Roles

\* context.user.role !== requiredRole, requireRole line 115
RoleMismatch(role, required) == role # required

\* requireRole lines 114-132
RoleHandler(rec) ==
  IF RoleMismatch(ContextRole(rec.res), RequiredRole)
  THEN LogThen(rec, RoleDeny(rec.email, RequiredRole, ContextRole(rec.res)), 403)
  ELSE Downstream(rec)

\* The handlers of the routes, up to their first await on the database.
\* users route lines 93-107: `role || 'viewer'`, `display_name || ''`.
RouteHandler(rec) ==
  LET ran == [rec EXCEPT !.handlerRan = TRUE]
  IN CASE rec.kind = "profileGET" -> Respond(ran, 200)
       [] rec.kind = "usersGET" -> StartCall(ran, "getAllUsers")
       [] rec.kind = "auditGET" -> StartCall(ran, "getAuditLogs")
       [] rec.kind = "usersPOST" ->
            IF rec.target = <<>> THEN Respond(ran, 400)
            ELSE StartCall([ran EXCEPT
                   !.args.role = IF rec.args.bodyRole \in {UNDEF, ""}
                                 THEN "viewer" ELSE rec.args.bodyRole,
                   !.args.invitedBy = rec.res.user[1].email], "addUser")
       [] OTHER -> StartCall(ran, "toggleUserStatus")

\* A guard that denies only the rows it found inactive.
GuardDeniesInactiveOnly(res) == res.user # <<>> /\ ~res.user[1].active

\* if (!allowListResult.allowed): createAuthGuard line 53
GuardDenies(res) == ~res.ok

\* if (!allowListResult.allowed || !allowListResult.user): route-level line 31
RouteDenies(res) == ~res.ok \/ res.user = <<>>

\* The code that follows `await allowListService.isEmailAllowed(email)`:
\* createAuthGuard lines 53-77, route-level requireAdmin lines 31-51,
\* profile route lines 29-40.
AfterLookup(rec) ==
  IF rec.kind \in AuditingGuards
  THEN IF GuardDenies(rec.res)
       THEN LogThen(rec, AllowListDeny(rec.email, rec.res), 403)
       ELSE LogThen(rec, ApiAllow(rec.email, rec.res), 0)
  ELSE IF RouteDenies(rec.res) THEN Respond(rec, 403)
       ELSE IF rec.kind \in AdminRoutes /\ rec.res.user[1].role # "admin"
            THEN Respond(rec, 403)
       ELSE RouteHandler(rec)

\* createAuthGuard line 90 / requireRole
EnterHandler(rec) ==
  IF rec.kind = "requireRole" THEN RoleHandler(rec) ELSE Downstream(rec)

\* Where an exception thrown by an awaited audit call would land: in the
\* guard's catch (a second audit call, then 500), or, thrown from that catch
\* or from a route handler's try, in a 500.
Thrown(rec) ==
  IF rec.kind \in AuditingGuards /\ rec.next # 500
  THEN LogThen(rec, ErrorDeny("audit error"), 500)
  ELSE Respond(rec, 500)

\* getSignedInEmail: the email of the session claims, or else the primary
\* email of currentUser(); a currentUser() that throws is caught and leaves
\* the email undefined.
ProfileEmail == <<"b">>

Profiles == {"found", "none", "throw"}

getSignedInEmail(claim, profile) ==
  IF claim # <<>> THEN claim
  ELSE IF profile = "found" THEN ProfileEmail ELSE <<>>

\* Whether getSignedInEmail calls currentUser() at all: if (!email && userId)
ProfileUsed(claim, profile) == IF claim # <<>> THEN "unused" ELSE profile

\* A request arrives: `await auth()`, `await getSignedInEmail()`, and
\* isEmailAllowed up to its cache look-up (lines 20-51 of createAuthGuard,
\* 9-29 of the route-level guards).  session is what auth() gives: a user id
\* ("ok"), none, or an exception; claim is the email of the session claims
\* and profile what currentUser() answers.
StartGuard(r, kind, session, claim, profile, ip, hthrows, target, args, csrf) ==
  /\ CanLog(kind, ip) => Len(auditLog) < MaxLog
  /\ LET email == getSignedInEmail(claim, profile)
         k == normalizeEmail(email)
         base == [Idle EXCEPT !.kind = kind, !.session = session, !.ip = ip,
                              !.started = now, !.csrf = csrf,
                              !.profile = IF session = "ok"
                                          THEN ProfileUsed(claim, profile)
                                          ELSE "unused"]
         full == [base EXCEPT !.email = email, !.hthrows = hthrows,
                              !.target = target, !.args = args,
                              !.call = "isEmailAllowed", !.after = Mark(k)]
     IN CASE CsrfRejects(csrf) ->
               Begin(r, Respond([base EXCEPT !.session = "none",
                                             !.profile = "unused"], 403))
          [] ~CsrfRejects(csrf) /\ session = "throw" ->
               IF kind \in AuditingGuards
               THEN Begin(r, LogThen(base, ErrorDeny("auth error"), 500))
               ELSE Begin(r, Respond(base, 500))
          [] ~CsrfRejects(csrf) /\ session = "none" -> Begin(r, Respond(base, 401))
          [] ~CsrfRejects(csrf) /\ session = "ok" /\ email = <<>> ->
               IF kind \in AuditingGuards
               THEN Begin(r, LogThen(base, NoEmailDeny, 401))
               ELSE Begin(r, Respond(base, 401))
          [] OTHER ->
               IF CacheFresh(cache, k, now)
               THEN Begin(r, AfterLookup([full EXCEPT !.res = HitResult(cache[k]),
                                                      !.src = "cache"]))
               ELSE Begin(r, [full EXCEPT !.pc = "query"])
  /\ UNCHANGED <<store, cache, now, dbUp, everHad, lastWrite, flips, auditLog, pager, edge>>

\* The code after the await of a service call made by a guard or a route.
GuardResume(r) ==
  /\ req[r].pc = "resume"
  /\ req[r].kind \in GuardKinds
  /\ LET rec == req[r]
         k == normalizeEmail(CallArg(rec))
         look == LookupAfter(cache, k, rec.qres, now)
         mut == MutationAfter(cache, rec.call, k, rec.qres)
         admin == rec.res.user[1].email
     IN CASE rec.call = "isEmailAllowed" ->
               /\ cache' = look.cache
               /\ req' = [req EXCEPT ![r] =
                            AfterLookup([rec EXCEPT !.res = look.res, !.src = "store",
                                                    !.qres = NoQres])]
               /\ last' = NoLast
          [] rec.call \in Mutations ->
               /\ cache' = mut.cache
               /\ req' = [req EXCEPT ![r] =
                            IF ~mut.res.ok
                            THEN Respond([rec EXCEPT !.mres = mut.res], 400)
                            ELSE LogThen([rec EXCEPT !.mres = mut.res],
                                   IF rec.call = "addUser"
                                   THEN AdminAddEvent(admin, rec.target, rec.args.bodyRole)
                                   ELSE AdminToggleEvent(admin, rec.target,
                                                         mut.res.newStatus),
                                   200)]
               /\ last' = MarkOf(r, rec.call, k, mut.res)
          [] OTHER ->
               /\ cache' = cache
               /\ req' = [req EXCEPT ![r] =
                            IF rec.qres.ok
                            THEN Respond([rec EXCEPT !.mres = SuccessResult], 200)
                            ELSE Respond([rec EXCEPT !.mres = ErrorResult(DbError)], 500)]
               /\ last' = NoLast
  /\ UNCHANGED <<store, now, dbUp, everHad, lastWrite, flips, auditLog, pager, edge>>

\* The database executes the pending INSERT INTO auth_audit_log (or fails),
\* logEvent returns, and the caller runs on to its next await.
AuditStep(r) ==
  /\ req[r].pc = "audit"
  /\ LET rec == req[r]
         inserted == dbUp /\ InetValid(rec.ip)
         logged == [rec EXCEPT !.audits =
                     Append(@, [rec.pend EXCEPT !.ok = LogEventResult(inserted).success])]
     IN /\ req' = [req EXCEPT ![r] =
                  IF LogEventThrows(inserted) THEN Thrown(logged)
                  ELSE IF rec.next # 0 THEN Respond(logged, rec.next)
                  ELSE EnterHandler(logged)]
        /\ auditLog' = IF inserted THEN InsertAudit(auditLog, rec.pend)
                                   ELSE auditLog
  /\ UNCHANGED <<store, cache, now, dbUp, everHad, lastWrite, flips, last, pager, edge>>

\* ---------------------------------------------- the service-level system
AddArgs ==
  { [displayName |-> "", role |-> "viewer", invitedBy |-> <<"a">>,
     bodyRole |-> "viewer"] }

\* The emails the admin manages, and the one nobody ever adds.
Managed == { <<"A", " ">> }
Stranger == <<"b">>

Lookups(E) == \E r \in Req, e \in E : StartLookup(r, e)

Adds(E) == \E r \in Req, e \in E, a \in AddArgs : StartMutation(r, "addUser", e, a)

Removes(E) == \E r \in Req, e \in E : StartMutation(r, "removeUser", e, NoArgs)

Toggles(E) == \E r \in Req, e \in E : StartMutation(r, "toggleUserStatus", e, NoArgs)

ServiceSteps ==
  \/ \E r \in Req : DbStep(r)
  \/ \E r \in Req : Resume(r)
  \/ \E r \in Req : Return(r)

\* Requests of the identity nobody ever adds, one per family of guards.
StrangerRequests ==
  \E r \in Req, kind \in {"createAuthGuard", "usersGET", "profileGET"} :
    StartGuard(r, kind, "ok", Stranger, "none", "203.0.113.7", FALSE, <<>>, NoArgs, NoCsrf)

\* Concurrent service calls and guarded requests, the clock standing still.
Next ==
  \/ Lookups(RawEmails)
  \/ Adds(Managed)
  \/ Removes(RawEmails)
  \/ Toggles(RawEmails)
  \/ StrangerRequests
  \/ ServiceSteps
  \/ \E r \in Req : GuardResume(r)
  \/ \E r \in Req : AuditStep(r)
  \/ DbDown
  \/ DbRecover

Spec == Init /\ [][Next]_vars

\* Concurrent service calls for one email while time passes.
TimedNext ==
  \/ Lookups(Managed)
  \/ Adds(Managed)
  \/ Removes(Managed)
  \/ Toggles(Managed)
  \/ ServiceSteps
  \/ Tick

TimedSpec == Init /\ [][TimedNext]_vars

\* Service calls that spell the two emails in several ways.
Variants == { <<"A", " ">>, <<" ", "a">>, <<"b">>, <<"B", " ">> }

NormNext ==
  \/ Lookups(Variants)
  \/ Adds({Stranger})
  \/ Removes(Variants)
  \/ Toggles(Variants)
  \/ ServiceSteps

NormSpec == Init /\ [][NormNext]_vars

\* ------------------------------------------------------ the HTTP surface
Sessions == {"ok", "none", "throw"}
Claims == RawEmails \cup { <<>> }
Ips == {"203.0.113.7", "unknown"}
Bodies ==
  { [displayName |-> "", role |-> "", invitedBy |-> <<>>, bodyRole |-> b] :
      b \in {UNDEF, "viewer"} }

\* The requests of the HTTP surface are served MaxInFlight at a time: a
\* request is admitted when fewer slots than that are taken.
Admit == Cardinality({ x \in Req : req[x].pc # "idle" }) < MaxInFlight

GuardedRequests ==
  \E r \in Req, kind \in AuditingGuards, s \in Sessions, e \in Claims,
     p \in Profiles, ip \in Ips, h \in BOOLEAN :
       StartGuard(r, kind, s, e, p, ip, h, <<>>, NoArgs, NoCsrf)

ReadRequests ==
  \E r \in Req, kind \in {"usersGET", "auditGET", "profileGET"},
     s \in Sessions, e \in Claims, p \in Profiles :
       StartGuard(r, kind, s, e, p, "unknown", FALSE, <<>>, NoArgs, NoCsrf)

AddRequests ==
  \E r \in Req, s \in Sessions, e \in Claims, ip \in Ips,
     t \in {Stranger, <<>>}, b \in Bodies,
     st \in Stacks, h \in HeaderTokens, c \in CookieTokens :
       StartGuard(r, "usersPOST", s, e, "none", ip, FALSE, t, b,
                  [stack |-> st, header |-> h, cookie |-> c])

ToggleRequests ==
  \E r \in Req, s \in Sessions, e \in Claims, ip \in Ips, t \in RawEmails,
     h \in HeaderTokens, c \in CookieTokens :
       StartGuard(r, "togglePATCH", s, e, "none", ip, FALSE, t, NoArgs,
                  [stack |-> "plain", header |-> h, cookie |-> c])

GuardNext ==
  \/ Admit /\ GuardedRequests
  \/ Admit /\ ReadRequests
  \/ Admit /\ AddRequests
  \/ Admit /\ ToggleRequests
  \/ \E r \in Req : DbStep(r)
  \/ \E r \in Req : GuardResume(r)
  \/ \E r \in Req : AuditStep(r)
  \/ \E r \in Req : Return(r)
  \/ DbDown
  \/ DbRecover

GuardSpec == Init /\ [][GuardNext]_vars

\* ------------------------------------------------- reading the audit log
\* The audit logs the pager is run on: up to MaxRows entries as the guards
\* write them, ids in insertion order, timestamps not decreasing with the id.
LogRows ==
  { [e EXCEPT !.ok = TRUE] :
      e \in { ApiAllow(<<"a">>, FoundResult(SeedRow)),
              AllowListDeny(<<"b">>, NotFoundResult),
              ErrorDeny("auth error") } }
Stamps == 0..1
LogSamples ==
  UNION { { [i \in 1..n |-> [id |-> i, ts |-> t[i], row |-> w[i]]] :
              t \in { u \in [1..n -> Stamps] :
                        \A i \in 1..n : \A j \in i..n : u[i] <= u[j] },
              w \in [1..n -> LogRows] } : n \in 0..MaxRows }

\* getAuditLogs 180-190: a condition per filter that is given.  The email
\* column is CITEXT: it compares without regard to case.
FilterEmails == { <<>>, <<"A">> }
FilterEvents == { "", "api_deny" }
Limits == 1..2
Matches(entry, email, event) ==
  /\ email # <<>> => toLowerCase(entry.row.email) = toLowerCase(email)
  /\ event # "" => entry.row.event = event

\* ORDER BY ts DESC: an order of the matching rows with no later timestamp
\* after an earlier one; among equal timestamps the database is free, at
\* each query anew.
OrderByTsDesc(tbl, email, event) ==
  LET idx == { i \in 1..Len(tbl) : Matches(tbl[i], email, event) }
      n == Cardinality(idx)
  IN { [i \in 1..n |-> tbl[p[i]]] :
         p \in { q \in [1..n -> idx] :
                   /\ \A i \in 1..n : \A j \in 1..n : q[i] = q[j] => i = j
                   /\ \A i \in 1..n : \A j \in i..n :
                        tbl[q[i]].ts >= tbl[q[j]].ts } }

\* getAuditLogs 215-216: queryParams.limit || 100, queryParams.offset || 0
EffectiveLimit(limit) == IF limit = 0 THEN 100 ELSE limit

Min(a, b) == IF a < b THEN a ELSE b

\* LIMIT $n OFFSET $m of an ordered result
LimitOffset(rows, limit, offset) ==
  SubSeq(rows, offset + 1, Min(Len(rows), offset + EffectiveLimit(limit)))

\* The results getAuditLogs can return: logs [] with an error when a query
\* fails, a page of some order by ts otherwise.
getAuditLogs(tbl, email, event, limit, offset) ==
  IF ~dbUp THEN { <<>> }
  ELSE { LimitOffset(o, limit, offset) : o \in OrderByTsDesc(tbl, email, event) }

\* An admin client opens the log with a filter and a page size ...
OpenPager ==
  /\ pager.pc = "idle"
  /\ \E e \in FilterEmails, ev \in FilterEvents, l \in Limits :
       pager' = [NoPager EXCEPT !.pc = "page1", !.email = e, !.event = ev,
                                !.limit = l]
  /\ UNCHANGED <<store, cache, now, dbUp, req, everHad, lastWrite, flips, last,
                 auditLog, edge>>

\* ... asks for limit = L, offset = 0 ...
FirstPage ==
  /\ pager.pc = "page1"
  /\ \E logs \in getAuditLogs(auditLog, pager.email, pager.event, pager.limit, 0) :
       pager' = [pager EXCEPT !.pc = "page2", !.page1 = logs]
  /\ UNCHANGED <<store, cache, now, dbUp, req, everHad, lastWrite, flips, last,
                 auditLog, edge>>

\* ... and then for limit = L, offset = L.
SecondPage ==
  /\ pager.pc = "page2"
  /\ \E logs \in getAuditLogs(auditLog, pager.email, pager.event, pager.limit,
                               pager.limit) :
       pager' = [pager EXCEPT !.pc = "done", !.page2 = logs]
  /\ UNCHANGED <<store, cache, now, dbUp, req, everHad, lastWrite, flips, last,
                 auditLog, edge>>

ClosePager ==
  /\ pager.pc = "done"
  /\ pager' = NoPager
  /\ UNCHANGED <<store, cache, now, dbUp, req, everHad, lastWrite, flips, last,
                 auditLog, edge>>

PageInit ==
  /\ store = {SeedRow}
  /\ cache = << >>
  /\ now = 0
  /\ dbUp = TRUE
  /\ req = [r \in Req |-> Idle]
  /\ everHad = {SeedRow.email}
  /\ lastWrite = [k \in Keys |-> LongAgo]
  /\ flips = [k \in Keys |-> 0]
  /\ last = NoLast
  /\ auditLog \in LogSamples
  /\ pager = NoPager
  /\ edge = NoEdge

PageNext == OpenPager \/ FirstPage \/ SecondPage \/ ClosePager

PageSpec == PageInit /\ [][PageNext]_vars

\* ------------------------------------------------------ the edge middleware
\* Request paths, as their segments: <<>> is "/".
Paths ==
  { <<>>, <<"auth", "login">>, <<"authors">>, <<"not-invited">>, <<"health">>,
    <<"api", "health">>, <<"api", "auth", "callback">>,
    <<"dashboard">>, <<"api", "admin", "users">> }

\* A segment that begins with the letters auth.
BeginsWithAuth(segment) == segment \in {"auth", "authors"}

\* pathname.startsWith('/auth'), pathname.startsWith('/api/auth')
StartsWithAuth(path) == Len(path) >= 1 /\ BeginsWithAuth(path[1])
StartsWithApiAuth(path) ==
  Len(path) >= 2 /\ path[1] = "api" /\ BeginsWithAuth(path[2])

\* createRouteMatcher(['/', '/auth(.*)', '/not-invited', '/health',
\* '/api/health', '/api/auth(.*)'])
isPublicRoute(path) ==
  \/ path = <<>>
  \/ StartsWithAuth(path)
  \/ path = <<"not-invited">>
  \/ path = <<"health">>
  \/ path = <<"api", "health">>
  \/ StartsWithApiAuth(path)

\* validateSessionRequest: no issue is found.  clean: the forwarded headers
\* and the query parameters carry nothing suspicious.
validateSessionRequest(e) ==
  /\ e.production => e.https
  /\ e.clean

\* A protect step that looks the identity up in the allow list as well.
protectAllowListed(e) ==
  /\ e.session = "ok"
  /\ \E row \in store : row.email = normalizeEmail(e.email) /\ row.active

\* auth.protect(): lets the request on when the session is live.
protect(e) == e.session = "ok"

\* The clerkMiddleware handler, lines 14-35.
middleware(e) ==
  IF /\ ~StartsWithAuth(e.path) /\ ~StartsWithApiAuth(e.path)
     /\ ~validateSessionRequest(e) /\ e.production
  THEN "400"
  ELSE IF isPublicRoute(e.path) THEN "next"
  ELSE IF protect(e) THEN "next"
  ELSE "unauthenticated"

\* The edge middleware handles a request.
EdgeRequest ==
  /\ \E path \in Paths, s \in {"ok", "none"}, id \in Managed,
        prod \in BOOLEAN, https \in BOOLEAN, clean \in BOOLEAN :
       LET e == [NoEdge EXCEPT !.pc = "done", !.path = path, !.session = s,
                               !.email = IF s = "ok" THEN id ELSE <<>>,
                               !.production = prod, !.https = https,
                               !.clean = clean]
       IN edge' = [e EXCEPT !.outcome = middleware(e)]
  /\ UNCHANGED <<store, cache, now, dbUp, req, everHad, lastWrite, flips, last,
                 auditLog, pager>>

\* A guarded API request of the signed-in identity.
ApiRequests ==
  \E r \in Req, id \in Managed :
    StartGuard(r, "createAuthGuard", "ok", id, "none", "unknown", FALSE,
               <<>>, NoArgs, NoCsrf)

\* The edge middleware in front of the allow list as the admin changes it.
EdgeNext ==
  \/ EdgeRequest
  \/ Admit /\ ApiRequests
  \/ Admit /\ Lookups(Managed)
  \/ Admit /\ Adds(Managed)
  \/ Admit /\ Removes(Managed)
  \/ Admit /\ Toggles(Managed)
  \/ ServiceSteps
  \/ \E r \in Req : GuardResume(r)
  \/ \E r \in Req : AuditStep(r)

EdgeSpec == Init /\ [][EdgeNext]_vars

\* ------------------------------------------------- calls that never return
\* The promise a request awaits (the SELECT of isEmailAllowed, the INSERT of
\* logEvent) never settles.  Nothing in the guard or the service races the
\* await against a timer, so no step of the request follows.
Hang(r) ==
  /\ req[r].pc \in {"query", "audit"}
  /\ req[r].kind \in GuardKinds
  /\ req' = [req EXCEPT ![r].pc = "hung"]
  /\ UNCHANGED <<store, cache, now, dbUp, everHad, lastWrite, flips, last,
                 auditLog, pager, edge>>

LiveNext ==
  \/ Admit /\ GuardedRequests
  \/ \E r \in Req : DbStep(r)
  \/ \E r \in Req : Hang(r)
  \/ \E r \in Req : GuardResume(r)
  \/ \E r \in Req : AuditStep(r)
  \/ \E r \in Req : Return(r)

\* The event loop runs every continuation that is ready, and a database that
\* answers does so eventually.
LiveSpec ==
  /\ Init /\ [][LiveNext]_vars
  /\ \A r \in Req : WF_vars(DbStep(r)) /\ WF_vars(GuardResume(r))
                      /\ WF_vars(AuditStep(r))

\* ================================================================ claims
\* What a lookup of key k answers when it reads the table as it is now.
StoreView(k) ==
  LET rows == SelectByEmail(store, k)
  IN IF rows = <<>> THEN NotFoundResult ELSE FoundResult(rows[1])

DoneLookup(r) == req[r].kind = "isEmailAllowed" /\ req[r].pc = "done"

KeyOf(r) == normalizeEmail(req[r].email)

\* C1, as amended: a lookup of e that starts right after a successful
\* addUser / removeUser / toggleUserStatus of e has returned, nothing else
\* running in between, is never answered from the cache: it queries the table
\* and returns the table's new state, or the database error when that query
\* fails.
C1_LookupAfterMutationReadsStore ==
  \A r \in Req :
    (DoneLookup(r) /\ req[r].after.op \in Mutations) =>
      /\ req[r].src = "store"
      /\ \/ req[r].qres.ok /\ req[r].res = StoreView(KeyOf(r))
         \/ ~req[r].qres.ok /\ req[r].res = ErrorResult(DbError)

C1_Witness ==
  \E r \in Req :
    /\ DoneLookup(r)
    /\ req[r].after.op = "toggleUserStatus"
    /\ req[r].after.newStatus = <<FALSE>>
    /\ req[r].res = StoreView(KeyOf(r))
    /\ req[r].res.user # <<>> /\ ~req[r].res.ok

\* C1 as stated: the lookup that follows the mutation returns the table's
\* new state.
C1_Original ==
  \A r \in Req :
    (DoneLookup(r) /\ req[r].after.op \in Mutations) =>
      req[r].res = StoreView(KeyOf(r))

\* A mutation of key k whose statement is committed and whose code after the
\* await (the cache.delete) has not run yet.
Invalidating(k) ==
  \E r \in Req :
    /\ req[r].call \in Mutations
    /\ req[r].pc = "resume"
    /\ req[r].qres.ok
    /\ normalizeEmail(CallArg(req[r])) = k

\* C2: once a mutation has committed and deleted the cache entry, no cache
\* entry holds the row as it was before the write (so every lookup that
\* starts from then on returns the post-write state).
C2_NoStaleEntryAfterInvalidation ==
  \A k \in DOMAIN cache :
    ~Invalidating(k) => SelectByEmail(store, k) = << cache[k].user >>

\* C3: a lookup that starts cacheTimeout or more after the last change of its
\* email's row returns the table's current state.
C3_StalenessBoundedByTTL ==
  \A r \in Req :
    (DoneLookup(r) /\ req[r].started >= lastWrite[KeyOf(r)] + cacheTimeout) =>
      req[r].res = StoreView(KeyOf(r))

\* C4: an email that never had a row is in no cache entry, gets allowed =
\* false from every lookup, and gets past no guard.
C4_NeverApprovedNeverAllowed ==
  /\ DOMAIN cache \subseteq everHad
  /\ \A r \in Req :
       (/\ req[r].kind \in GuardKinds \cup {"isEmailAllowed"}
        /\ req[r].email # <<>>
        /\ KeyOf(r) \notin everHad) =>
         /\ ~req[r].res.ok
         /\ ~req[r].handlerRan
         /\ req[r].status \in {0, 403}

C4_Witness ==
  /\ \E r \in Req :
       /\ req[r].kind = "createAuthGuard" /\ req[r].pc = "done"
       /\ KeyOf(r) \notin everHad
       /\ req[r].res = NotFoundResult /\ req[r].status = 403
  /\ \E r \in Req :
       /\ req[r].kind = "profileGET" /\ req[r].pc = "done"
       /\ KeyOf(r) \notin everHad
       /\ req[r].res = ErrorResult(DbError) /\ req[r].status = 403

\* C5, as amended: a service call whose query the unreachable database fails
\* returns allowed = false / success = false with error set; a lookup made
\* while the database is unreachable is answered either that way or, without
\* any query, from a fresh cache entry with the cached decision.
C5_FailedQueryFailsClosed ==
  \A r \in Req :
    (req[r].kind \in ServiceKinds /\ req[r].pc = "done") =>
      /\ (req[r].src = "store" /\ ~req[r].qres.ok) =>
           (~req[r].res.ok /\ req[r].res.error = DbError)
      /\ req[r].src = "cache" =>
           (/\ req[r].kind = "isEmailAllowed"
            /\ req[r].res.error = UNDEF
            /\ req[r].res.user # <<>>
            /\ req[r].res.ok = req[r].res.user[1].active)

C5_Witness ==
  /\ \E r \in Req :
       DoneLookup(r) /\ req[r].src = "store" /\ ~req[r].qres.ok
         /\ req[r].res = ErrorResult(DbError)
  /\ \E r \in Req :
       req[r].kind = "toggleUserStatus" /\ req[r].pc = "done"
         /\ ~req[r].qres.ok /\ req[r].res = ErrorResult(DbError)

\* C5 as stated: every lookup answered while the database is unreachable
\* returns allowed = false with error set.
C5_Original ==
  [][ \A r \in Req :
        (/\ ~dbUp
         /\ req[r].pc = "idle"
         /\ req'[r].pc = "done"
         /\ req'[r].kind = "isEmailAllowed") =>
          (~req'[r].res.ok /\ req'[r].res.error # UNDEF) ]_vars

DoneGuard(r) == req[r].kind \in GuardKinds /\ req[r].pc = "done"

\* An audit call of request r whose entry matches e in all but the outcome
\* of its INSERT.
Issued(r, e) ==
  \E i \in 1..Len(req[r].audits) :
    [req[r].audits[i] EXCEPT !.ok = TRUE] = [e EXCEPT !.ok = TRUE]

\* ... and whose INSERT succeeded: the entry is in auth_audit_log.
Appended(r, e) ==
  \E i \in 1..Len(req[r].audits) : req[r].audits[i] = [e EXCEPT !.ok = TRUE]

\* C6: a guarded request whose allow-list lookup could not reach the database
\* (and found no fresh cache entry) ends in a 5xx response, and the handler
\* is not invoked.
C6_StoreFailureIs5xx ==
  \A r \in Req :
    (DoneGuard(r) /\ req[r].res.error = DbError) =>
      (req[r].status >= 500 /\ ~req[r].handlerRan)

\* C7: every finished guarded request has appended exactly one audit entry,
\* and that entry is api_allow exactly when the request was let through to
\* the handler.
C7_ExactlyOneAuditEntry ==
  \A r \in Req :
    (req[r].kind \in AuditingGuards /\ req[r].pc = "done") =>
      /\ Len(req[r].audits) = 1
      /\ req[r].audits[1].ok
      /\ req[r].audits[1].event = "api_allow" <=> req[r].handlerRan

\* C8: the first request of an identity after its row was toggled to inactive
\* is answered 403 without running the handler, and an api_deny entry with
\* reason not_in_allowlist is appended for it.
C8_RevokedDeniedAndAudited ==
  \A r \in Req :
    (/\ DoneGuard(r)
     /\ req[r].after.op = "toggleUserStatus"
     /\ req[r].after.newStatus = <<FALSE>>) =>
      /\ req[r].status = 403
      /\ ~req[r].handlerRan
      /\ \E i \in 1..Len(req[r].audits) :
           /\ req[r].audits[i].event = "api_deny"
           /\ req[r].audits[i].reason = "not_in_allowlist"
           /\ req[r].audits[i].email = req[r].email
           /\ req[r].audits[i].ok

\* The request got past the allow-list check of the Role Guard.
PastAllowList(r) ==
  /\ req[r].kind = "requireRole" /\ req[r].pc = "done"
  /\ req[r].session = "ok" /\ req[r].email # <<>> /\ req[r].res.ok

ExpectedStatus(rec) ==
  CASE CsrfRejects(rec.csrf) -> 403
    [] rec.session = "throw" -> 500
    [] rec.session = "none" -> 401
    [] rec.email = <<>> -> 401
    [] rec.kind \in AuditingGuards ->
         IF ~rec.res.ok THEN 403
         ELSE IF rec.kind = "requireRole" /\ ContextRole(rec.res) # RequiredRole
              THEN 403
         ELSE IF rec.hthrows THEN 500 ELSE 200
    [] OTHER ->
         IF ~rec.res.ok \/ rec.res.user = <<>> THEN 403
         ELSE IF rec.kind \in AdminRoutes /\ rec.res.user[1].role # "admin" THEN 403
         ELSE IF rec.kind = "profileGET" THEN 200
         ELSE IF rec.kind \in {"usersGET", "auditGET"}
              THEN (IF rec.mres.ok THEN 200 ELSE 500)
         ELSE IF rec.kind = "usersPOST" /\ rec.target = <<>> THEN 400
         ELSE IF rec.mres.ok THEN 200 ELSE 400

ExpectedHandler(rec) ==
  /\ rec.session = "ok" /\ rec.email # <<>> /\ rec.res.ok
  /\ rec.kind = "requireRole" => ContextRole(rec.res) = RequiredRole
  /\ rec.kind \in AdminRoutes => rec.res.user[1].role = "admin"

\* C10: whether its audit INSERTs succeed or fail, a guarded request gets the
\* response and the handler invocation its allow/deny decision leads to (no
\* audit call throws into the guard's catch or the route's 500), and logEvent
\* reports a failed INSERT as success = false with error set.
C10_AuditFailureKeepsDecision ==
  /\ \A r \in Req :
       DoneGuard(r) =>
         /\ req[r].status = ExpectedStatus(req[r])
         /\ req[r].handlerRan = ExpectedHandler(req[r])
  /\ ~LogEventResult(FALSE).success /\ LogEventResult(FALSE).error # UNDEF

C10_Witness ==
  \E r \in Req :
    /\ req[r].kind = "createAuthGuard" /\ req[r].pc = "done"
    /\ req[r].status = 200 /\ req[r].handlerRan
    /\ Len(req[r].audits) = 1 /\ ~req[r].audits[1].ok
    /\ req[r].audits[1].event = "api_allow"

\* C11: when the identity provider fails (auth() throws, or currentUser()
\* throws and the session claims carry no email), the request ends 401:
\* never 500, and the handler is never invoked.
C11_ProviderFailureIsUnauthenticated ==
  \A r \in Req :
    (DoneGuard(r) /\ (req[r].session = "throw" \/ req[r].profile = "throw")) =>
      (req[r].status = 401 /\ ~req[r].handlerRan)

\* The row of key k, when there is one.
RowOf(k) == SelectByEmail(store, k)[1]

\* C12: toggles lose no update however they interleave: a row is active
\* exactly when it has taken an even number of toggles since it was created
\* active, and every successful toggleUserStatus call returns as newStatus
\* the value its own flip produced.
C12_NoLostToggle ==
  /\ \A k \in Keys :
       SelectByEmail(store, k) # <<>> => (RowOf(k).active <=> flips[k] = 0)
  /\ \A r \in Req :
       (/\ req[r].call = "toggleUserStatus"
        /\ req[r].pc \in {"done", "audit"}
        /\ (IF req[r].kind \in GuardKinds THEN req[r].mres ELSE req[r].res).ok) =>
         /\ req[r].flip # NoFlip
         /\ (IF req[r].kind \in GuardKinds THEN req[r].mres ELSE req[r].res).newStatus
              = << req[r].flip = 0 >>

\* Two toggles of the same row, both finished before either caller took
\* its result: opposite answers, and the row as it was created.
C12_Witness ==
  /\ \A r \in Req :
       /\ req[r].kind = "toggleUserStatus" /\ req[r].pc = "done"
       /\ req[r].res.ok /\ KeyOf(r) = <<"a">>
  /\ \E r1, r2 \in Req :
       req[r1].res.newStatus = <<FALSE>> /\ req[r2].res.newStatus = <<TRUE>>
  /\ RowOf(<<"a">>).active /\ flips[<<"a">>] = 0

\* A successful toggleUserStatus that started right after a successful
\* toggleUserStatus of the same email returned, nothing else in between or
\* beside the first.
SecondToggle(r) ==
  /\ req[r].kind = "toggleUserStatus" /\ req[r].pc = "done" /\ req[r].res.ok
  /\ req[r].after.op = "toggleUserStatus" /\ req[r].after.solo

\* The step in which the database executes the UPDATE of toggle call r.
ToggleCommit(r) ==
  /\ req[r].call = "toggleUserStatus"
  /\ req[r].pc = "query" /\ req'[r].pc = "resume" /\ req'[r].qres.ok

\* C13: toggle is an involution.  The second of two successive successful
\* toggles returns the negation of what the first returned and leaves the
\* row with that value, the value it had before the first; and the UPDATE
\* of a toggle changes nothing but active (negated, and returned) and
\* updated_at of its own row.
C13_ToggleInvolution ==
  /\ [](\A r \in Req :
          SecondToggle(r) =>
            /\ req[r].res.newStatus = << ~req[r].after.newStatus[1] >>
            /\ RowOf(KeyOf(r)).active = ~req[r].after.newStatus[1])
  /\ [][ \A r \in Req :
          ToggleCommit(r) =>
            LET k == normalizeEmail(CallArg(req[r]))
            IN /\ store' = { IF row.email = k
                             THEN [row EXCEPT !.active = ~row.active,
                                              !.updated_at = now]
                             ELSE row : row \in store }
               /\ req'[r].qres.rows =
                    IF SelectByEmail(store, k) = <<>> THEN <<>>
                    ELSE << [active |-> ~RowOf(k).active] >> ]_vars

C13_Witness ==
  \E r \in Req :
    /\ SecondToggle(r)
    /\ req[r].after.newStatus = <<FALSE>>
    /\ req[r].res.newStatus = <<TRUE>>
    /\ RowOf(KeyOf(r)) = SeedRow

\* Strings of at most MaxLen characters.
Alphabet == {"a", "A", "b", "B", " "}

Strings == UNION { [1..n -> Alphabet] : n \in 0..MaxLen }

CaseEq(x, y) == x = y \/ {x, y} = {"a", "A"} \/ {x, y} = {"b", "B"}

AllSpaces(s, i, j) == \A n \in i..j : s[n] = " "

\* a and b differ only in letter case and in leading / trailing white space:
\* each is spaces, a core, spaces, and the cores agree letter by letter up
\* to case.
Equivalent(a, b) ==
  \E i \in 1..Len(a) + 1, j \in 0..Len(a), m \in 1..Len(b) + 1, n \in 0..Len(b) :
    /\ AllSpaces(a, 1, i - 1) /\ AllSpaces(a, j + 1, Len(a))
    /\ AllSpaces(b, 1, m - 1) /\ AllSpaces(b, n + 1, Len(b))
    /\ j - i = n - m /\ j - i >= 0 - 1
    /\ \A x \in 0..(j - i) : CaseEq(a[i + x], b[m + x])

NormalizationAgrees ==
  \A a, b \in Strings : Equivalent(a, b) => normalizeEmail(a) = normalizeEmail(b)

\* The step in which the database executes the statement of call r.
Executes(r) == req[r].pc = "query" /\ req'[r].pc = "resume" /\ req'[r].qres.ok

\* C14: emails that differ only in case or surrounding white space are the
\* same email to the service: they normalize to the same key; a lookup is
\* answered from the cache entry, or reads the row, of any equivalent
\* spelling; a mutation changes no row but the one of an equivalent
\* spelling; and each email has at most one row and one cache entry.
C14_NormalizationEquivalence ==
  /\ [](/\ NormalizationAgrees
        /\ \A x, y \in store : Equivalent(x.email, y.email) => x = y
        /\ \A x, y \in DOMAIN cache : Equivalent(x, y) => x = y)
  /\ [][ \A r \in Req :
          /\ (req[r].pc = "idle" /\ req'[r].pc = "done"
                 /\ req'[r].kind = "isEmailAllowed") =>
               \E k \in DOMAIN cache :
                 /\ Equivalent(k, req'[r].email)
                 /\ req'[r].res = HitResult(cache[k])
          /\ (Executes(r) /\ req[r].call = "isEmailAllowed") =>
               req'[r].qres.rows \in
                 IF \E row \in store : Equivalent(row.email, req[r].email)
                 THEN { <<row>> : row \in
                          { x \in store : Equivalent(x.email, req[r].email) } }
                 ELSE { <<>> }
          /\ (Executes(r) /\ req[r].call \in Mutations) =>
               /\ \A row \in store :
                    ~Equivalent(row.email, req[r].email) => row \in store'
               /\ \A row \in store' :
                    ~Equivalent(row.email, req[r].email) => row \in store
               /\ (req[r].call = "addUser" \/ store' # store) =>
                    \E row \in store \cup store' :
                      Equivalent(row.email, req[r].email) ]_vars

\* An entry added as b is allowed when looked up as "B ".
C14_Witness ==
  \E r \in Req :
    /\ DoneLookup(r) /\ req[r].email = <<"B", " ">>
    /\ req[r].after.op = "addUser"
    /\ req[r].res.ok /\ req[r].res.user[1].email = <<"b">>

\* The reference lookup: what the rows found for an email mean.
Reference(rows) ==
  IF rows = <<>>
  THEN [ok |-> FALSE, user |-> <<>>, error |-> "Email not found in allow list",
        newStatus |-> <<>>]
  ELSE [ok |-> rows[1].active, user |-> <<rows[1]>>, error |-> UNDEF,
        newStatus |-> <<>>]

\* The rows of the table whose email is k.
RowsFor(k) == IF \E row \in store : row.email = k
              THEN << CHOOSE row \in store : row.email = k >> ELSE <<>>

\* The code after the SELECT of lookup r runs.
LookupReturns(r) ==
  /\ req[r].call = "isEmailAllowed" /\ req[r].pc = "resume"
  /\ req'[r].pc # "resume"

\* C15: a lookup that misses the cache reads the row of its email as the
\* table holds it and answers with the reference lookup on it: no row,
\* allowed = false, no user, the 'not found' error; an inactive row, allowed
\* = false with the row and no error; an active row, allowed = true with
\* the row.  It never throws: a failed query gives allowed = false with the
\* error.
C15_MissEqualsReference ==
  [][ \A r \in Req :
        /\ (Executes(r) /\ req[r].call = "isEmailAllowed") =>
             req'[r].qres.rows = RowsFor(KeyOf(r))
        /\ LookupReturns(r) =>
             /\ req'[r].src = "store"
             /\ req'[r].res = IF req[r].qres.ok THEN Reference(req[r].qres.rows)
                              ELSE [ok |-> FALSE, user |-> <<>>, error |-> DbError,
                                    newStatus |-> <<>>] ]_vars

C15_Witness ==
  \E r \in Req :
    /\ DoneLookup(r) /\ req[r].src = "store" /\ req[r].qres.ok
    /\ ~req[r].res.ok /\ req[r].res.error = UNDEF
    /\ req[r].res.user # <<>> /\ ~req[r].res.user[1].active
    /\ req[r].res.user = RowsFor(KeyOf(r))

DoneAdminMutation(r) ==
  /\ req[r].kind \in {"usersPOST", "togglePATCH"} /\ req[r].pc = "done"
  /\ req[r].call \in Mutations

AdminEntries(r) ==
  { i \in 1..Len(req[r].audits) :
      req[r].audits[i].event \in
        {"admin_add_user", "admin_remove_user", "admin_toggle_user"} }

\* The entry the claim asks for: the acting admin, the target, and the role
\* assigned or the new status.
ExpectedAdminEntry(r) ==
  IF req[r].kind = "usersPOST"
  THEN AdminAddEvent(req[r].res.user[1].email, req[r].target, req[r].args.role)
  ELSE AdminToggleEvent(req[r].res.user[1].email, req[r].target,
                        req[r].mres.newStatus)

\* C17: a successful add or toggle made through the admin routes has
\* appended, by the time the success response is sent, exactly one admin
\* entry of the matching type, with the acting admin as email and the target
\* email and the role assigned / the new status as details; a failed
\* mutation appends no admin entry.
C17_AdminMutationAudited ==
  \A r \in Req :
    DoneAdminMutation(r) =>
      IF req[r].mres.ok
      THEN /\ req[r].status = 200
           /\ Cardinality(AdminEntries(r)) = 1
           /\ Appended(r, ExpectedAdminEntry(r))
      ELSE AdminEntries(r) = {}

\* In this request a session and an email were obtained and isEmailAllowed
\* returned allowed = true with role exactly 'admin'.
AdminVerified(r) ==
  /\ req[r].session = "ok" /\ req[r].email # <<>>
  /\ req[r].res.ok /\ req[r].res.user # <<>>
  /\ req[r].res.user[1].role = "admin"

AdminCalls == {"addUser", "toggleUserStatus", "getAllUsers", "getAuditLogs"}

\* The handler of an admin route, and with it every service call it makes,
\* runs only for a verified admin.
OnlyAdminReachesService ==
  \A r \in Req :
    (req[r].kind \in AdminRoutes /\ (req[r].handlerRan \/ req[r].call \in AdminCalls))
      => AdminVerified(r)

\* C18: an admin route invokes addUser, toggleUserStatus, getAllUsers or
\* getAuditLogs only for a verified admin, and a request that is not one
\* ends 401 or 403 without having reached the service.
C18_OnlyAdminMutatesOrLists ==
  /\ OnlyAdminReachesService
  /\ \A r \in Req :
       (req[r].kind \in AdminRoutes /\ req[r].pc = "done" /\ ~AdminVerified(r)) =>
         (req[r].status \in {401, 403} /\ req[r].call \notin AdminCalls)

\* C19: no addUser, removeUser or toggleUserStatus call is reached by a
\* request to a mutating admin endpoint whose CSRF token is missing or does
\* not match its cookie.
C19_MutationOnlyWithCsrfToken ==
  \A r \in Req :
    (req[r].kind \in {"usersPOST", "togglePATCH"} /\ req[r].call \in Mutations)
      => validateToken(req[r].csrf.header, req[r].csrf.cookie)

\* The endpoint exported through withCSRFProtection does run the check.
ProtectedStackChecksToken ==
  \A r \in Req :
    (req[r].csrf.stack = "protected" /\ req[r].call \in Mutations)
      => validateToken(req[r].csrf.header, req[r].csrf.cookie)

\* The entries of the audit log whose row names email k.
EntriesOf(k) == { i \in 1..Len(auditLog) : normalizeEmail(auditLog[i].row.email) = k }

\* C20: the audit log is append-only.  Every step keeps each entry already
\* written, at its place and unmodified, and gives each entry it adds an id
\* strictly greater than every id present before; no step, a removeUser of
\* the email an entry names included, updates or deletes an entry.
C20_AuditLogAppendOnly ==
  [][ /\ Len(auditLog') >= Len(auditLog)
      /\ SubSeq(auditLog', 1, Len(auditLog)) = auditLog
      /\ \A i \in (Len(auditLog) + 1)..Len(auditLog') :
           \A j \in 1..Len(auditLog) : auditLog'[i].id > auditLog[j].id ]_vars

\* Two entries are in the log, and a removeUser of the email they name has
\* just returned successfully.
C20_Witness ==
  /\ Len(auditLog) >= 2
  /\ last.op = "removeUser"
  /\ EntriesOf(last.key) # {}

\* C21: the pages limit = L, offset = 0 and limit = L, offset = L hold
\* together exactly the first 2L matching entries of the log in
\* timestamp-descending order, none twice and none skipped.
C21_PaginationPartitions ==
  pager.pc = "done" =>
    \E o \in OrderByTsDesc(auditLog, pager.email, pager.event) :
      pager.page1 \o pager.page2 = SubSeq(o, 1, Min(Len(o), 2 * pager.limit))

\* The matching entries of the log carry pairwise different timestamps.
NoTies ==
  \A i \in 1..Len(auditLog) : \A j \in 1..Len(auditLog) :
    (/\ i # j
     /\ Matches(auditLog[i], pager.email, pager.event)
     /\ Matches(auditLog[j], pager.email, pager.event))
      => auditLog[i].ts # auditLog[j].ts

PaginationPartitionsWithoutTies == NoTies => C21_PaginationPartitions

\* C22: a request to a public path passes the edge filter without any
\* check or rejection, and a request to any other path passes only with a
\* live session confirmed by the protect step.
C22_EdgeClassification ==
  edge.pc = "done" =>
    /\ isPublicRoute(edge.path) => edge.outcome = "next"
    /\ (~isPublicRoute(edge.path) /\ edge.outcome = "next") => edge.session = "ok"

\* The protected half alone.
ProtectedPathNeedsSession ==
  (edge.pc = "done" /\ ~isPublicRoute(edge.path) /\ edge.outcome = "next")
    => edge.session = "ok"

\* The identity has an active row in the allow list.
ActiveInStore(email) ==
  \E row \in store : row.email = normalizeEmail(email) /\ row.active

C23_NoSilentHang ==
  \A r \in Req :
    (req[r].kind \in GuardKinds /\ InFlight(r)) ~> (req[r].pc = "done")

\* A request whose awaited calls all return does reach a terminal outcome.
TerminatesUnlessHung ==
  \A r \in Req :
    (req[r].kind \in GuardKinds /\ InFlight(r))
      ~> (req[r].pc = "done" \/ req[r].pc = "hung")

\* The error values of isEmailAllowed tell a Store failure from 'not found'.
ErrorValuesDiffer ==
  \A r \in Req :
    (DoneGuard(r) /\ req[r].res.error = DbError) =>
      (req[r].res = ErrorResult(DbError) /\ req[r].res # NotFoundResult)

\* C24: isEmailAllowed reports a Store failure through an error value other
\* than the 'not found' one, and the api_deny entry the guard writes for a
\* denial caused by a Store failure differs from the entry it writes for an
\* absent email: it does not carry reason not_in_allowlist.
C24_OutageDistinguishable ==
  /\ ErrorValuesDiffer
  /\ \A r \in Req :
       (DoneGuard(r) /\ req[r].kind \in AuditingGuards
          /\ req[r].res.error = DbError) =>
         ~Issued(r, AllowListDeny(req[r].email, NotFoundResult))

\* The steps a request of an auditing guard has taken come in the order
\* identity, allow list, audit, handler.
StepOrder ==
  \A r \in Req :
    req[r].kind \in AuditingGuards =>
      /\ (req[r].call = "isEmailAllowed" /\ req[r].pc \in {"query", "resume"}) =>
           /\ req[r].session = "ok" /\ req[r].email # <<>>
           /\ req[r].audits = <<>> /\ req[r].pend = NoEntry
           /\ ~req[r].handlerRan
      /\ (req[r].pend.event = "api_allow" \/ req[r].pend.reason = "not_in_allowlist") =>
           (req[r].src \in {"cache", "store"} /\ ~req[r].handlerRan)
      /\ req[r].pc = "audit" => req[r].status = 0
      /\ req[r].handlerRan => Issued(r, ApiAllow(req[r].email, req[r].res))

\* C25: inside one guarded request the identity check completes before the
\* allow-list check starts, the allow-list check before the audit write is
\* issued, and the audit write for the decision before the handler is
\* invoked or the deny response is returned; the handler never runs before
\* an api_allow write of the request was issued.
C25_StrictStepOrder ==
  /\ StepOrder
  /\ \A r \in Req :
       (req[r].kind \in AuditingGuards /\ req[r].pc = "done"
          /\ req[r].status # 200) => Len(req[r].audits) >= 1

\* C26: isEmailAllowed answers from the cache only when the entry's age at
\* the read is strictly less than cacheTimeout, and then with the entry's
\* snapshot; an entry of age >= cacheTimeout is never served, the Store is
\* queried instead; and on a found row the entry is replaced as a whole by
\* the new snapshot with the time of the replacement.
C26_TTLEnforcedAtRead ==
  [][ \A r \in Req :
        LET k == normalizeEmail(req'[r].email)
        IN /\ (req[r].pc = "idle" /\ req'[r].kind = "isEmailAllowed") =>
                /\ req'[r].src = "cache" =>
                     /\ CacheHas(cache, k)
                     /\ now - cache[k].timestamp < cacheTimeout
                     /\ req'[r].res = HitResult(cache[k])
                /\ (CacheHas(cache, k) /\ now - cache[k].timestamp >= cacheTimeout) =>
                     (req'[r].pc = "query" /\ req'[r].src # "cache")
           /\ (/\ req[r].kind = "isEmailAllowed" /\ req[r].pc = "resume"
               /\ req'[r].pc = "done" /\ req'[r].res.user # <<>>) =>
                /\ CacheHas(cache', k)
                /\ cache'[k] = [user |-> req[r].qres.rows[1], timestamp |-> now] ]_vars

\* A lookup is querying the Store although the cache holds an entry for its
\* email: the entry had reached the age cacheTimeout when the lookup read it.
C26_Witness ==
  \E r \in Req :
    /\ req[r].kind = "isEmailAllowed" /\ req[r].pc = "query"
    /\ CacheHas(cache, KeyOf(r))
    /\ req[r].started - cache[KeyOf(r)].timestamp >= cacheTimeout

\* The cache entry of k is new or changed in this step.
CacheWritten(k) ==
  CacheHas(cache', k) /\ (CacheHas(cache, k) => cache'[k] # cache[k])

\* Request r is an isEmailAllowed call (made directly or by a guard) whose
\* SELECT has been answered and whose continuation runs in this step.
LookupResumes(r) ==
  /\ req[r].call = "isEmailAllowed" /\ req[r].pc = "resume"
  /\ req'[r].pc # "resume"

\* C27: the cache gets an entry for a canonical email only from an
\* isEmailAllowed call that read a row of that email from the Store, and
\* the entry is that row; a lookup that found no row or failed leaves the
\* cache as it was.  So the lookup that directly follows the addUser that
\* created an email's row reads the Store and, the Store answering, allows.
C27_NoNegativeCaching ==
  /\ [][ /\ \A k \in Keys :
             CacheWritten(k) =>
               \E r \in Req :
                 /\ LookupResumes(r) /\ normalizeEmail(CallArg(req[r])) = k
                 /\ req[r].qres.ok /\ req[r].qres.rows # <<>>
                 /\ cache'[k].user = req[r].qres.rows[1]
         /\ \A r \in Req :
             (LookupResumes(r) /\ (~req[r].qres.ok \/ req[r].qres.rows = <<>>))
               => cache' = cache ]_vars
  /\ [](\A r \in Req :
         (/\ DoneLookup(r) /\ req[r].after.op = "addUser"
          /\ req[r].after.created /\ req[r].after.solo) =>
           /\ req[r].src = "store"
           /\ req[r].qres.ok => req[r].res.ok)

\* A lookup found no row; the email was then added, creating its row, and
\* the lookup that followed at once was answered from the Store: allowed.
C27_Witness ==
  \E r \in Req :
    /\ DoneLookup(r) /\ req[r].after.op = "addUser"
    /\ req[r].after.created /\ req[r].after.solo
    /\ req[r].src = "store" /\ req[r].res.ok

\* The statement of mutation r was answered with a failure, or, for a
\* toggle, matched no row: the call returns success = false.
WriteFailed(call, qres) ==
  ~qres.ok \/ (call = "toggleUserStatus" /\ qres.rows = <<>>)

\* The continuation of mutation r runs in this step.
MutationResumes(r) ==
  /\ req[r].call \in Mutations /\ req[r].pc = "resume"
  /\ req'[r].pc # "resume"

\* C28: a mutation that returns success = false (Store error, or a toggle of
\* an email with no row, which returns 'User not found') has changed neither
\* the Store nor the cache, and a cache entry is deleted only by a mutation
\* of its email whose Store write has succeeded.
C28_FailedMutationChangesNothing ==
  [][ /\ \A r \in Req :
           /\ (/\ req[r].call \in Mutations /\ req[r].pc = "query"
               /\ req'[r].pc = "resume"
               /\ WriteFailed(req[r].call, req'[r].qres)) => store' = store
           /\ (MutationResumes(r) /\ WriteFailed(req[r].call, req[r].qres)) =>
                /\ cache' = cache
                /\ req[r].kind \in Mutations =>
                     /\ ~req'[r].res.ok
                     /\ req'[r].res.error =
                          IF req[r].qres.ok THEN UserNotFoundError ELSE DbError
      /\ \A k \in Keys :
           (CacheHas(cache, k) /\ ~CacheHas(cache', k)) =>
             \E r \in Req :
               /\ MutationResumes(r) /\ normalizeEmail(CallArg(req[r])) = k
               /\ ~WriteFailed(req[r].call, req[r].qres) ]_vars

\* A mutation has returned success = false and the cache entry of its email
\* is in place.
C28_Witness ==
  \E r \in Req :
    /\ req[r].kind \in Mutations /\ req[r].pc = "done"
    /\ ~req[r].res.ok /\ req[r].res.error \in {DbError, UserNotFoundError}
    /\ CacheHas(cache, KeyOf(r))

\* removeUser call r: its DELETE is answered in this step / its continuation
\* runs in this step.
RemoveExecutes(r) ==
  /\ req[r].kind = "removeUser" /\ req[r].pc = "query"
  /\ req'[r].pc = "resume" /\ req'[r].qres.ok
RemoveReturns(r) ==
  /\ req[r].kind = "removeUser" /\ req[r].pc = "resume"
  /\ req'[r].pc = "done" /\ req[r].qres.ok

\* removeUser call r directly follows a successful removeUser of the same
\* email, and nothing else has run since the first of the two started.
SecondRemove(r) ==
  /\ req[r].after.op = "removeUser" /\ req[r].after.solo /\ req[r].solo

\* C29 as stated: after any successful removeUser the email has neither a
\* Store row nor a cache entry.
C29_Original ==
  [][ \A r \in Req :
        RemoveReturns(r) =>
          /\ SelectByEmail(store', KeyOf(r)) = <<>>
          /\ ~CacheHas(cache', KeyOf(r)) ]_vars

\* C29, as amended: removeUser on an email with no row leaves the Store
\* unchanged and returns success = true; the DELETE of a removeUser leaves
\* no row of the email; when a successful removeUser returns the email has
\* no cache entry, and no Store row either unless another call ran while it
\* was in flight; and a second removeUser directly after the first changes
\* neither the Store nor the cache.
C29_RemoveIdempotent ==
  [][ \A r \in Req :
        /\ RemoveExecutes(r) =>
             /\ SelectByEmail(store', KeyOf(r)) = <<>>
             /\ SelectByEmail(store, KeyOf(r)) = <<>> => store' = store
             /\ SecondRemove(r) => store' = store
        /\ RemoveReturns(r) =>
             /\ req'[r].res = SuccessResult
             /\ ~CacheHas(cache', KeyOf(r))
             /\ req[r].solo => SelectByEmail(store', KeyOf(r)) = <<>>
             /\ SecondRemove(r) => cache' = cache ]_vars

\* A removeUser of an existing email was followed at once by a second one,
\* and both returned success.
C29_Witness ==
  \E r \in Req :
    /\ req[r].kind = "removeUser" /\ req[r].pc = "done" /\ req[r].res.ok
    /\ req[r].after.op = "removeUser" /\ req[r].after.solo
    /\ last.op = "removeUser" /\ last.solo /\ last.key = KeyOf(r)
    /\ KeyOf(r) \in everHad /\ SelectByEmail(store, KeyOf(r)) = <<>>

====
